---- MODULE Spec2Model ----
(***************************************************************************)
(* A model of project-struct-cli: run (main.go), the Generator that walks  *)
(* the source tree (generator.go) and the document builders (builders/).   *)
(*                                                                         *)
(* A file name is the record [s |-> stem, x |-> extension], cut at the     *)
(* final dot as filepath.Ext cuts it: a.go is [s |-> "a", x |-> ".go"],    *)
(* .git is [s |-> "", x |-> ".git"], d1 is [s |-> "d1", x |-> ""].         *)
(* A path is the sequence of its components; "." is <<Dot>>, "/" is        *)
(* <<Slash>>, "./proj" is <<Dot, proj>>.                                   *)
(***************************************************************************)
EXTENDS Integers, Sequences, FiniteSets, TLC

\* ------------------------------------------------------------------ bounds
\* Largest value of the -max-size flag (KB) the model configures.
MaxKB == 1

\* Largest value of the -max-total flag (MB) the model configures.
MaxMB == 1

\* Most calls made on one builder in the builder specification.
MaxCalls == 4

\* Most runs over one tree in the specification that repeats the run.
MaxRuns == 2

\* ---------------------------------------------------------------- constants
\* generator.go:83, kb * 1024
BytesPerKB == 1024

\* generator.go:90, mb * 1024 * 1024
BytesPerMB == 1048576

\* review builder, Sprintf("%4d: %s"): the minimum width of the number
NumWidth == 4

\* ------------------------------------------------------------------- names
Nm(s, x) == [s |-> s, x |-> x]

Dot == Nm("", ".")

Slash == Nm("/", "")

NGit == Nm("", ".git")

NGitignore == Nm("", ".gitignore")

NHead == Nm("HEAD", "")

NReadme == Nm("README", ".md")

NA == Nm("a", ".go")

NB == Nm("b", ".png")

ND1 == Nm("d1", "")

ND2 == Nm("d2", "")

NE == Nm("e", "")

NProj == Nm("proj", "")

NSecret == Nm("secret", ".txt")

NX == Nm("x", ".log")

\* The names of the model in the byte order os.ReadDir sorts a listing by.
NameOrder ==
  << NGit, NGitignore, NHead, NReadme, NA, NB, ND1, ND2, NE, NProj, NSecret, NX >>

\* generator.go binaryExts
binaryExts ==
  { ".exe", ".dll", ".so", ".a", ".lib", ".o",
    ".zip", ".gz", ".tar", ".rar", ".7z",
    ".png", ".jpg", ".jpeg", ".gif", ".bmp", ".ico",
    ".pdf", ".doc", ".docx", ".xls", ".xlsx", ".ppt", ".pptx" }

\* ------------------------------------------------------------ path/filepath
\* filepath.Clean on the paths of the model: "." components are dropped, the
\* empty result is ".".
Clean(p) ==
  LET q == SelectSeq(p, LAMBDA c : c # Dot)
  IN  IF q = <<>> THEN <<Dot>> ELSE q

\* filepath.Join(p, name)
Join(p, n) == Clean(p \o <<n>>)

\* filepath.Dir
Dir(p) ==
  LET c == Clean(p)
  IN  IF Len(c) = 1
      THEN (IF c = <<Slash>> THEN <<Slash>> ELSE <<Dot>>)
      ELSE SubSeq(c, 1, Len(c) - 1)

\* filepath.Base, which is also what DirEntry.Name() gives
Base(p) == LET c == Clean(p) IN c[Len(c)]

\* filepath.Ext: the suffix from the final dot of the final component
Ext(p) == Base(p).x

IsPrefix(a, b) == Len(a) <= Len(b) /\ SubSeq(b, 1, Len(a)) = a

\* filepath.Rel(base, p) for p at or below base; ok is FALSE where Rel fails
Rel(base, p) ==
  LET cb == Clean(base)
      cp == Clean(p)
  IN  IF cb = <<Dot>> /\ cp[1] # Slash THEN [ok |-> TRUE, path |-> cp]
      ELSE IF cp = cb THEN [ok |-> TRUE, path |-> <<Dot>>]
      ELSE IF IsPrefix(cb, cp)
           THEN [ok |-> TRUE, path |-> SubSeq(cp, Len(cb) + 1, Len(cp))]
           ELSE [ok |-> FALSE, path |-> cp]

\* getFileLanguage (main.go)
getFileLanguage(p) ==
  LET ext == Ext(p)
  IN  CASE ext = ".go" -> "go"
        [] ext = ".js" -> "javascript"
        [] ext = ".ts" -> "typescript"
        [] ext = ".py" -> "python"
        [] ext = ".md" -> "markdown"
        [] ext = ".json" -> "json"
        [] ext = ".html" -> "html"
        [] ext = ".css" -> "css"
        [] ext \in {".yaml", ".yml"} -> "yaml"
        [] ext = ".sh" -> "shell"
        [] OTHER -> ""

\* ------------------------------------------------------- go-gitignore rules
\* A pattern line is a name with an optional leading "!" (neg).  A stem "*"
\* is the glob star: *.log is Nm("*", ".log"), * alone is Nm("*", "").
Pat(n, neg) == [name |-> n, neg |-> neg]

\* One pattern against a path: the regular expression go-gitignore compiles
\* for a pattern without a slash is ^(|.*/)PATTERN(|/.*)$, so the pattern is
\* tried on every component of the path as it is passed in.
PatMatches(pat, path) ==
  \E i \in 1..Len(path) :
     IF pat.name.s = "*"
     THEN pat.name.x = "" \/ path[i].x = pat.name.x
     ELSE path[i] = pat.name

RECURSIVE MatchFold(_, _, _, _)
MatchFold(pats, path, i, acc) ==
  IF i > Len(pats) THEN acc
  ELSE IF PatMatches(pats[i], path)
       THEN MatchFold(pats, path, i + 1,
                      IF ~pats[i].neg THEN TRUE
                      ELSE IF acc THEN FALSE ELSE acc)
       ELSE MatchFold(pats, path, i + 1, acc)

\* GitIgnore.MatchesPath: the patterns in order, a negated pattern that
\* matches withdraws an earlier match.
MatchesPath(matcher, path) == MatchFold(matcher.pats, path, 1, FALSE)

\* The nil IgnoreParser.
Nil == [nil |-> TRUE, src |-> <<>>, pats |-> <<>>]

\* A compiled matcher remembers the directory (or "cli") its lines came from.
Matcher(src, pats) == [nil |-> FALSE, src |-> src, pats |-> pats]

\* The matcher compiled from the -ignore flag.
CliSrc == << Nm("-ignore", "") >>

\* ------------------------------------------------------------ the file tree
\* A tree path is the path of an entry below the scan root, <<>> for the root.
\* A directory's rules file is absent, present and compilable, or present and
\* not readable (ignore.CompileIgnoreFile fails).
NoRules == [present |-> FALSE, ok |-> FALSE, pats |-> <<>>]

Rules(pats) == [present |-> TRUE, ok |-> TRUE, pats |-> pats]

BadRules == [present |-> TRUE, ok |-> FALSE, pats |-> <<>>]

StarLog == Pat(Nm("*", ".log"), FALSE)

StarGo == Pat(Nm("*", ".go"), FALSE)

Star == Pat(Nm("*", ""), FALSE)

\* The tree of the end-to-end example: a.go, b.png, secret.txt (and .gitignore).
LayoutE2E ==
  [dirs |-> { <<>> },
   plain |-> { <<NA>>, <<NB>>, <<NSecret>> }]

\* A tree with a .git directory, two sibling directories and a nested one.
LayoutMain ==
  [dirs |-> { <<>>, <<NGit>>, <<ND1>>, <<ND1, NE>>, <<ND2>> },
   plain |-> { <<NGit, NHead>>, <<NA>>, <<NB>>,
               <<ND1, NX>>, <<ND1, NE, NX>>, <<ND2, NX>> }]

\* The same tree with a README.md in the root.
LayoutReadme ==
  [dirs |-> LayoutMain.dirs, plain |-> LayoutMain.plain \cup { <<NReadme>> }]

\* The sizes a file of the model may have: empty, small, at and just above each
\* per-file ceiling, just below and at each cumulative ceiling.
SizeChoices ==
  {0, 10}
    \cup { k * BytesPerKB : k \in 1..MaxKB }
    \cup { k * BytesPerKB + 1 : k \in 1..MaxKB }
    \cup { m * BytesPerMB - 10 : m \in 1..MaxMB }
    \cup { m * BytesPerMB : m \in 1..MaxMB }

\* The size of a file the model does not vary: secret.txt has 20 bytes, every
\* other file 10.
DefaultSize(tp) == IF tp[Len(tp)] = NSecret THEN 20 ELSE 10

\* The rules files of a tree: rs gives the directories that have one.
RulesOf(layout, rs) ==
  [d \in layout.dirs |-> IF d \in DOMAIN rs THEN rs[d] ELSE NoRules]

\* The file system a scan sees: the directories, the files (a rules file is a
\* file of its directory), the rules, the rules file of the directory above
\* the scan root, the sizes, and the entries on which a system call fails.
MkFS(layout, rs, outside, sz, unreadable, noInfo, badDirs) ==
  LET rules == RulesOf(layout, rs)
      ignoreFiles == { d \o <<NGitignore>> : d \in { e \in layout.dirs : rules[e].present } }
      files == layout.plain \cup ignoreFiles
  IN  [dirs |-> layout.dirs,
       files |-> files,
       rules |-> rules,
       outside |-> outside,
       size |-> [f \in files |-> IF f \in DOMAIN sz THEN sz[f] ELSE DefaultSize(f)],
       unreadable |-> unreadable
                        \cup { d \o <<NGitignore>> :
                                 d \in { e \in layout.dirs : rules[e].present /\ ~rules[e].ok } },
       noInfo |-> noInfo,
       badDirs |-> badDirs]

\* The content of a file, as os.ReadFile returns it: a sequence of characters.
FileText(tp) ==
  LET n == tp[Len(tp)]
  IN  CASE n = NA -> << "p", "\n", "q", "\n", "r" >>
        [] n = NX -> << "l", "\n" >>
        [] n = NReadme -> << "t" >>
        [] OTHER -> << >>

\* Config (main.go): IgnoreCli is the list of the comma-separated patterns,
\* <<>> for the empty string.
MkCfg(src, cli, format, kb, mb) ==
  [SrcDir |-> src, IgnoreCli |-> cli, Format |-> format,
   MaxSizeKB |-> kb, MaxTotalSizeMB |-> mb]

\* The forms the -src flag names the scan root in: ".", "proj", "./proj", "/proj".
SrcDirs == { <<Dot>>, <<NProj>>, <<Dot, NProj>>, <<Slash, NProj>> }

Formats == { "default", "review", "llm", "xml" }

\* Scans that vary the sizes and the two ceilings.
BudgetScans ==
  { [fs |-> MkFS(LayoutMain,
                 IF d1rules THEN (<<ND1>> :> Rules(<<StarLog>>)) ELSE << >>,
                 NoRules,
                 (<<NA>> :> sa) @@ (<<NB>> :> sb) @@ (<<ND1, NX>> :> sx),
                 unreadable, noInfo, {}),
     cfg |-> MkCfg(<<NProj>>, << >>, "default", kb, mb)] :
      d1rules \in BOOLEAN,
      sa \in SizeChoices, sx \in SizeChoices,
      sb \in { 10 } \cup { m * BytesPerMB : m \in 1..MaxMB },
      unreadable \in { {}, { <<NA>> }, { <<ND1, NX>> } },
      noInfo \in { {}, { <<ND1, NX>> } },
      kb \in 0..MaxKB, mb \in 0..MaxMB }

\* Scans that vary the rules files, the -ignore patterns and the root's form.
RuleScans ==
  { [fs |-> MkFS(LayoutMain,
                 (<<>> :> r0) @@ (<<ND1>> :> r1) @@ (<<ND1, NE>> :> r2) @@ (<<ND2>> :> r3),
                 out, << >>, {}, {}, {}),
     cfg |-> MkCfg(src, cli, "default", 0, 0)] :
      r0 \in { NoRules, Rules(<<StarLog>>), Rules(<<Pat(ND1, FALSE)>>),
               Rules(<<Star, Pat(NGit, TRUE)>>) },
      r1 \in { NoRules, Rules(<<StarLog>>), Rules(<<StarLog, Pat(NX, TRUE)>>), BadRules },
      r2 \in { NoRules, Rules(<<StarGo>>) },
      r3 \in { NoRules, Rules(<<StarLog>>) },
      out \in { NoRules, Rules(<<StarLog>>), Rules(<<Pat(NProj, FALSE)>>) },
      cli \in { << >>, <<StarLog>>, <<Pat(ND2, FALSE)>> },
      src \in SrcDirs }

\* Scans that vary the format, a README.md, its size, whether -ignore names it,
\* and a directory that cannot be listed.
FormatScans ==
  { [fs |-> MkFS(layout, << >>, NoRules, (<<NA>> :> sa) @@ (<<NReadme>> :> sr),
                 {}, {}, badDirs),
     cfg |-> MkCfg(<<NProj>>, cli, format, 0, mb)] :
      layout \in { LayoutMain, LayoutReadme },
      sa \in { 10 } \cup { m * BytesPerMB : m \in 1..MaxMB },
      sr \in { 10 } \cup { m * BytesPerMB : m \in 1..MaxMB },
      cli \in { << >>, << Pat(NReadme, FALSE) >> },
      badDirs \in { {}, { <<ND1>> } },
      format \in Formats,
      mb \in 0..MaxMB }

\* The end-to-end example, for every form of the root.
E2EScans ==
  { [fs |-> MkFS(LayoutE2E, (<<>> :> Rules(<<Pat(NSecret, FALSE)>>)),
                 out, << >>, {}, {}, {}),
     cfg |-> MkCfg(src, << >>, format, 0, 0)] :
      out \in { NoRules, Rules(<<Pat(NProj, FALSE)>>) },
      src \in SrcDirs,
      format \in Formats \ { "xml" } }

Scans == BudgetScans \cup RuleScans \cup FormatScans \cup E2EScans

\* -------------------------------------------------------------------- state
VARIABLES
  fs,          \* the file system the scan reads; it does not change during a run
  cfg,         \* Config
  g,           \* the Generator
  builder,     \* the DocumentBuilder run selected
  todo,        \* filepath.WalkDir: the calls of processPath still to make
  pc,          \* where run is: start, walk, walked, copy, done
  walkErr,     \* what Walk returned: "none" or the error
  runErr,      \* what run returned
  trace,       \* history: one record per call of processPath
  handed,      \* what Build handed to templates.ExecuteTemplate
  output,      \* the bytes run wrote to its io.Writer
  calls,       \* history: the calls made on the builder, in order
  prior        \* history: what the earlier walks over this tree delivered and returned

vars ==
  << fs, cfg, g, builder, todo, pc, walkErr, runErr, trace, handed, output, calls,
     prior >>

\* templates.FileData
FileData(path, content, language) ==
  [Path |-> path, Content |-> content, Language |-> language]

NoFile == FileData(<< >>, << >>, "")

\* The zero Generator with NewGenerator's empty matcherCache.
ZeroGenerator ==
  [cliIgnoreMatcher |-> Nil, srcDir |-> << >>, maxSizeBytes |-> 0,
   totalSizeLimit |-> 0, currentTotalSize |-> 0, matcherCache |-> << >>]

\* A builder as New...Builder returns it.
NewBuilder(kind) ==
  [kind |-> kind, projectName |-> Nm("", ""), projectSummary |-> NoFile, files |-> << >>]

\* One call on the builder: the operation and its argument.
Call(op, name, file) == [op |-> op, name |-> name, file |-> file]

NoDoc == [tmpl |-> "", name |-> Nm("", ""), summary |-> NoFile, files |-> << >>]

Init ==
  /\ \E sc \in Scans : fs = sc.fs /\ cfg = sc.cfg
  /\ g = ZeroGenerator
  /\ builder = NewBuilder("none")
  /\ todo = << >>
  /\ pc = "start"
  /\ walkErr = "none"
  /\ runErr = "none"
  /\ trace = << >>
  /\ handed = NoDoc
  /\ output = NoDoc
  /\ calls = << >>
  /\ prior = << >>

\* ---------------------------------------------------------------- Generator
\* WithCliIgnore
WithCliIgnore(patterns) ==
  IF patterns = << >> THEN Nil ELSE Matcher(CliSrc, patterns)

\* WithMaxSize
WithMaxSize(kb) == kb * BytesPerKB

\* WithTotalSizeLimit
WithTotalSizeLimit(mb) == mb * BytesPerMB

\* NewGenerator with a slip: the running total of the Generator of the
\* earlier run is carried into the new one.
NewGeneratorKeepTotal(c) ==
  [cliIgnoreMatcher |-> WithCliIgnore(c.IgnoreCli),
   srcDir |-> c.SrcDir,
   maxSizeBytes |-> WithMaxSize(c.MaxSizeKB),
   totalSizeLimit |-> WithTotalSizeLimit(c.MaxTotalSizeMB),
   currentTotalSize |-> g.currentTotalSize,
   matcherCache |-> << >>]

\* NewGenerator with the options run passes.
NewGenerator(c) ==
  [cliIgnoreMatcher |-> WithCliIgnore(c.IgnoreCli),
   srcDir |-> c.SrcDir,
   maxSizeBytes |-> WithMaxSize(c.MaxSizeKB),
   totalSizeLimit |-> WithTotalSizeLimit(c.MaxTotalSizeMB),
   currentTotalSize |-> 0,
   matcherCache |-> << >>]

\* The path WalkDir passes for an entry: the root as it was given, a child as
\* filepath.Join of its parent's path and its name.
GoPath(src, tp) == IF tp = << >> THEN src ELSE Clean(src \o tp)

\* The rules file os.Stat and CompileIgnoreFile find in directory dir: a
\* directory of the tree has its own, the directory above the root has
\* fs.outside.
RulesAt(src, dir) ==
  IF \E tp \in fs.dirs : Clean(GoPath(src, tp)) = dir
  THEN fs.rules[CHOOSE tp \in fs.dirs : Clean(GoPath(src, tp)) = dir]
  ELSE IF dir = Dir(src) THEN fs.outside ELSE NoRules

\* findMatcherForDir with a slip: a compiled matcher is cached for the parent
\* directory as well as for the directory that holds the rules file.
RECURSIVE findMatcherSharedUp(_, _, _)
findMatcherSharedUp(src, cache, dir) ==
  IF dir \in DOMAIN cache THEN [m |-> cache[dir], cache |-> cache, probed |-> << >>, steps |-> 0]
  ELSE LET r == RulesAt(src, dir)
       IN  IF r.present /\ r.ok
           THEN [m |-> Matcher(dir, r.pats),
                 cache |-> (dir :> Matcher(dir, r.pats))
                             @@ (Dir(dir) :> Matcher(dir, r.pats)) @@ cache,
                 probed |-> << dir >>, steps |-> 0]
           ELSE IF dir = src \/ dir = <<Dot>> \/ dir = <<Slash>>
                THEN [m |-> Nil, cache |-> (dir :> Nil) @@ cache,
                      probed |-> << dir >>, steps |-> 0]
                ELSE LET up == findMatcherSharedUp(src, cache, Dir(dir))
                     IN  [m |-> up.m, cache |-> (dir :> up.m) @@ up.cache,
                          probed |-> << dir >> \o up.probed,
                          steps |-> up.steps + 1]

\* findMatcherForDir with a slip: the parent's matcher is returned without
\* being cached for the directory asked.
RECURSIVE findMatcherNoCompress(_, _, _)
findMatcherNoCompress(src, cache, dir) ==
  IF dir \in DOMAIN cache THEN [m |-> cache[dir], cache |-> cache, probed |-> << >>, steps |-> 0]
  ELSE LET r == RulesAt(src, dir)
       IN  IF r.present /\ r.ok
           THEN [m |-> Matcher(dir, r.pats),
                 cache |-> (dir :> Matcher(dir, r.pats)) @@ cache,
                 probed |-> << dir >>, steps |-> 0]
           ELSE IF dir = src \/ dir = <<Dot>> \/ dir = <<Slash>>
                THEN [m |-> Nil, cache |-> (dir :> Nil) @@ cache,
                      probed |-> << dir >>, steps |-> 0]
                ELSE LET up == findMatcherNoCompress(src, cache, Dir(dir))
                     IN  [m |-> up.m, cache |-> up.cache,
                          probed |-> << dir >> \o up.probed,
                          steps |-> up.steps + 1]

\* findMatcherForDir: the matcher and the cache after the call; probed lists
\* the directories in which the call looked for a rules file (os.Stat), steps
\* counts the recursive calls it made.
RECURSIVE findMatcherForDir(_, _, _)
findMatcherForDir(src, cache, dir) ==
  IF dir \in DOMAIN cache THEN [m |-> cache[dir], cache |-> cache, probed |-> << >>, steps |-> 0]
  ELSE LET r == RulesAt(src, dir)
       IN  IF r.present /\ r.ok
           THEN [m |-> Matcher(dir, r.pats),
                 cache |-> (dir :> Matcher(dir, r.pats)) @@ cache,
                 probed |-> << dir >>, steps |-> 0]
           ELSE IF dir = src \/ dir = <<Dot>> \/ dir = <<Slash>>
                THEN [m |-> Nil, cache |-> (dir :> Nil) @@ cache,
                      probed |-> << dir >>, steps |-> 0]
                ELSE LET up == findMatcherForDir(src, cache, Dir(dir))
                     IN  [m |-> up.m, cache |-> (dir :> up.m) @@ up.cache,
                          probed |-> << dir >> \o up.probed,
                          steps |-> up.steps + 1]

\* The .git test with a slip: the name compared is git, without the dot.
IsGitDirNoDot(isDir, name) == isDir /\ name = Nm("git", "")

\* processPath, "Always skip .git directories"
IsGitDir(isDir, name) == isDir /\ name = NGit

\* The test on the two matchers with a slip: both must match.
IgnoredByBoth(gitMatcher, cliMatcher, path) ==
  /\ (~gitMatcher.nil /\ MatchesPath(gitMatcher, path))
  /\ (~cliMatcher.nil /\ MatchesPath(cliMatcher, path))

\* processPath, the test on the two matchers
Ignored(gitMatcher, cliMatcher, path) ==
  \/ (~gitMatcher.nil /\ MatchesPath(gitMatcher, path))
  \/ (~cliMatcher.nil /\ MatchesPath(cliMatcher, path))

\* The return for an ignored entry with a slip: a directory is not skipped.
IgnoredRetNil(isDir) == "nil"

\* processPath, what it returns for an ignored entry: a directory is skipped
\* entirely, a file is just this entry.
IgnoredRet(isDir) == IF isDir THEN "SkipDir" ELSE "nil"

\* The extension test with a slip: the stem is looked up, not the extension.
IsBinaryByStem(path) == Base(path).s \in binaryExts

\* processPath, the binary/archive extension test
IsBinary(path) == Ext(path) \in binaryExts

\* The per-file ceiling with a slip: a file of exactly the ceiling is skipped.
TooLargeAtLimit(maxSizeBytes, size) == maxSizeBytes > 0 /\ size >= maxSizeBytes

\* processPath, the per-file ceiling
TooLarge(maxSizeBytes, size) == maxSizeBytes > 0 /\ size > maxSizeBytes

\* The cumulative ceiling with a slip: reaching the ceiling exactly fails.
OverBudgetAtLimit(totalSizeLimit, currentTotalSize, size) ==
  totalSizeLimit > 0 /\ currentTotalSize + size >= totalSizeLimit

\* The cumulative ceiling with a slip: the file's size alone is compared.
OverBudgetPerFile(totalSizeLimit, currentTotalSize, size) ==
  totalSizeLimit > 0 /\ size > totalSizeLimit

\* processPath, the cumulative ceiling
OverBudget(totalSizeLimit, currentTotalSize, size) ==
  totalSizeLimit > 0 /\ currentTotalSize + size > totalSizeLimit

\* The two ceilings with a slip: the cumulative ceiling is tested first.
SizeGateBudgetFirst(gen, size) ==
  IF OverBudget(gen.totalSizeLimit, gen.currentTotalSize, size) THEN "budget"
  ELSE IF TooLarge(gen.maxSizeBytes, size) THEN "toolarge"
  ELSE "admit"

\* processPath, the two ceilings in their order: the per-file ceiling, then
\* the cumulative one.
SizeGate(gen, size) ==
  IF TooLarge(gen.maxSizeBytes, size) THEN "toolarge"
  ELSE IF OverBudget(gen.totalSizeLimit, gen.currentTotalSize, size) THEN "budget"
  ELSE "admit"

\* The running total with a slip: the size is added once the file has passed
\* the two ceilings, before it is read.
ChargeOnAdmit(total, size, readOk) == total + size

\* processPath, the running total after os.ReadFile: the size is added only
\* when the read succeeded.
Charge(total, size, readOk) == IF readOk THEN total + size ELSE total

\* AddFile with a slip: a file that is already held is not added again.
AddFileOnce(files, file) ==
  IF \E i \in 1..Len(files) : files[i] = file THEN files ELSE Append(files, file)

\* AddFile of the three builders: append
AddFile(files, file) == Append(files, file)

\* SetProjectName of the three builders
SetProjectName(b, name) == [b EXCEPT !.projectName = name]

\* SetSummary of the three builders
SetSummary(b, summary) == [b EXCEPT !.projectSummary = summary]

\* The return for a failed read with a slip: the read error is returned.
ReadFailedRetErr == "err"

\* processPath, what it returns when os.ReadFile fails: the error is logged
\* and the walk goes on.
ReadFailedRet == "nil"

\* The record processPath builds for a file it accepts.
NewFileData(src, path, tp) ==
  LET rel == Rel(src, path)
      relativePath == IF rel.ok THEN rel.path ELSE path
  IN  FileData(relativePath, FileText(tp), getFileLanguage(relativePath))

\* What one call of processPath does: ret is nil, SkipDir or err; gen and files
\* are the Generator and the builder's files after the call; out names the
\* branch taken.
Result(ret, out, gen, files, dir, found) ==
  [ret |-> ret, out |-> out, gen |-> gen, files |-> files, dir |-> dir,
   m |-> found.m, probed |-> found.probed, steps |-> found.steps]

\* No call of findMatcherForDir was made.
NotResolved == [m |-> Nil, probed |-> << >>, steps |-> 0]

processPath(gen, files, tp, err) ==
  LET path == GoPath(gen.srcDir, tp)
      isDir == tp \in fs.dirs
      name == IF tp = << >> THEN Base(gen.srcDir) ELSE tp[Len(tp)]
  IN
  IF err THEN Result("err", "walkerr", gen, files, << >>, NotResolved)
  ELSE IF IsGitDir(isDir, name) THEN Result("SkipDir", "gitdir", gen, files, << >>, NotResolved)
  ELSE
    LET dir == Dir(path)
        found == findMatcherForDir(gen.srcDir, gen.matcherCache, dir)
        gitMatcher == found.m
        g1 == [gen EXCEPT !.matcherCache = found.cache]
        size == fs.size[tp]
    IN
    IF Ignored(gitMatcher, gen.cliIgnoreMatcher, path)
    THEN Result(IgnoredRet(isDir), "ignored", g1, files, dir, found)
    ELSE IF isDir THEN Result("nil", "descend", g1, files, dir, found)
    ELSE IF IsBinary(path) THEN Result("nil", "binary", g1, files, dir, found)
    ELSE IF tp \in fs.noInfo THEN Result("nil", "noinfo", g1, files, dir, found)
    ELSE IF SizeGate(gen, size) = "toolarge"
         THEN Result("nil", "toolarge", g1, files, dir, found)
    ELSE IF SizeGate(gen, size) = "budget"
         THEN Result("err", "budget", g1, files, dir, found)
    ELSE IF tp \in fs.unreadable
         THEN Result(ReadFailedRet, "unreadable",
                     [g1 EXCEPT !.currentTotalSize = Charge(gen.currentTotalSize, size, FALSE)],
                     files, dir, found)
    ELSE Result("nil", "added",
                [g1 EXCEPT !.currentTotalSize = Charge(gen.currentTotalSize, size, TRUE)],
                AddFile(files, NewFileData(gen.srcDir, path, tp)),
                dir, found)

\* ----------------------------------------------------------------- builders
\* strings.Split(content, "\n"): the pieces between the separators, one more
\* than there are separators.
RECURSIVE SplitLines(_, _, _)
SplitLines(content, i, cur) ==
  IF i > Len(content) THEN << cur >>
  ELSE IF content[i] = "\n"
       THEN << cur >> \o SplitLines(content, i + 1, << >>)
       ELSE SplitLines(content, i + 1, Append(cur, content[i]))

DigitChars == << "0", "1", "2", "3", "4", "5", "6", "7", "8", "9" >>

\* The decimal digits of n >= 0 (%d).
RECURSIVE Digits(_)
Digits(n) ==
  IF n < 10 THEN << DigitChars[n + 1] >>
  ELSE Digits(n \div 10) \o << DigitChars[(n % 10) + 1] >>

\* Spaces that pad a field of k characters to the width of %4d.
Pad(k) == [i \in 1..(IF k < NumWidth THEN NumWidth - k ELSE 0) |-> " "]

\* fmt.Sprintf("%4d: %s", n, line)
NumberedLine(n, line) ==
  Pad(Len(Digits(n))) \o Digits(n) \o << ":", " " >> \o line

\* ReviewBuilder.Build, the ReviewFileData of one file
ReviewFileData(file) ==
  LET lines == SplitLines(file.Content, 1, << >>)
  IN  [Path |-> file.Path,
       Language |-> file.Language,
       Lines |-> [i \in 1..Len(lines) |-> NumberedLine(i, lines[i])]]

\* Build of the three builders: the template and the data handed to
\* templates.ExecuteTemplate.
BuildData(b) ==
  CASE b.kind = "review" ->
         [tmpl |-> "review.md.tmpl", name |-> b.projectName,
          summary |-> b.projectSummary,
          files |-> [i \in 1..Len(b.files) |-> ReviewFileData(b.files[i])]]
    [] b.kind = "llm" ->
         [tmpl |-> "llm.txt.tmpl", name |-> b.projectName,
          summary |-> b.projectSummary, files |-> b.files]
    [] OTHER ->
         [tmpl |-> "default.md.tmpl", name |-> b.projectName,
          summary |-> b.projectSummary, files |-> b.files]

\* ---------------------------------------------------------------------- run
\* run, the switch on cfg.Format
SelectBuilder(format) ==
  CASE format = "review" -> "review"
    [] format = "llm" -> "llm"
    [] OTHER -> "default"

\* run, the summary read from README.md of the source directory
ReadmeSummary(b, src) ==
  IF <<NReadme>> \in fs.files /\ <<NReadme>> \notin fs.unreadable
  THEN SetSummary(b, FileData(<< >>, FileText(<<NReadme>>),
                              getFileLanguage(Join(src, NReadme))))
  ELSE b

\* run up to the call of generator.Walk: the builder, its name and summary,
\* the Generator; WalkDir starts with the root.
RunSetup ==
  /\ pc = "start"
  /\ builder' = ReadmeSummary(
                  SetProjectName(NewBuilder(SelectBuilder(cfg.Format)), Base(cfg.SrcDir)),
                  cfg.SrcDir)
  /\ calls' = << Call("SetProjectName", Base(cfg.SrcDir), NoFile) >>
                 \o (IF builder'.projectSummary # NoFile
                     THEN << Call("SetSummary", Nm("", ""), builder'.projectSummary) >>
                     ELSE << >>)
  /\ g' = NewGenerator(cfg)
  /\ todo' = << [tp |-> << >>, err |-> FALSE] >>
  /\ pc' = "walk"
  /\ UNCHANGED << prior, fs, cfg, walkErr, runErr, trace, handed, output >>

\* os.ReadDir: the entries of a directory sorted by name.
Children(tp) ==
  LET names == SelectSeq(NameOrder, LAMBDA n : (tp \o <<n>>) \in (fs.dirs \cup fs.files))
  IN  [i \in 1..Len(names) |-> [tp |-> tp \o << names[i] >>, err |-> FALSE]]

\* filepath.WalkDir after one call of its function: the calls that remain.
\* An error ends the walk; SkipDir on a directory skips its entries; a
\* directory that cannot be listed is reported by a second call.
WalkNext(item, ret, rest) ==
  IF ret = "err" THEN << >>
  ELSE IF ret = "SkipDir" \/ item.tp \notin fs.dirs THEN rest
  ELSE IF item.tp \in fs.badDirs THEN << [tp |-> item.tp, err |-> TRUE] >> \o rest
  ELSE Children(item.tp) \o rest

\* The end of the walk with a slip: WalkDir does not return when no call
\* remains.
WalkDoneNever(next) == FALSE

\* filepath.WalkDir returns, and with it Walk, when no call remains.
WalkDone(next) == next = << >>

\* One step of Walk: WalkDir calls processPath for the next entry.
WalkEntry ==
  /\ pc = "walk"
  /\ todo # << >>
  /\ LET item == Head(todo)
         r == processPath(g, builder.files, item.tp, item.err)
         next == WalkNext(item, r.ret, Tail(todo))
     IN  /\ g' = r.gen
         /\ builder' = [builder EXCEPT !.files = r.files]
         /\ trace' = Append(trace,
                       [tp |-> item.tp,
                        path |-> GoPath(g.srcDir, item.tp),
                        isDir |-> item.tp \in fs.dirs,
                        size |-> IF item.tp \in fs.files THEN fs.size[item.tp] ELSE 0,
                        dir |-> r.dir,
                        m |-> r.m,
                        probed |-> r.probed,
                        steps |-> r.steps,
                        cacheBefore |-> g.matcherCache,
                        cacheAfter |-> r.gen.matcherCache,
                        out |-> r.out,
                        before |-> g.currentTotalSize,
                        after |-> r.gen.currentTotalSize])
         /\ calls' = IF r.out = "added"
                     THEN Append(calls, Call("AddFile", Nm("", ""), r.files[Len(r.files)]))
                     ELSE calls
         /\ todo' = next
         /\ walkErr' = IF r.ret = "err" THEN r.out ELSE "none"
         /\ pc' = IF WalkDone(next) THEN "walked" ELSE "walk"
  /\ UNCHANGED << prior, fs, cfg, runErr, handed, output >>

\* The test of Walk's error with a slip: the error is dropped.
WalkFailedNever(err) == FALSE

\* run, "if err := generator.Walk(); err != nil { return err }"
WalkFailed(err) == err # "none"

RunWalkFailed ==
  /\ pc = "walked"
  /\ WalkFailed(walkErr)
  /\ runErr' = walkErr
  /\ pc' = "done"
  /\ UNCHANGED << prior, fs, cfg, g, builder, todo, walkErr, trace, handed, output, calls >>

\* run, build.Build(): the template renders or fails.
RunBuild ==
  /\ pc = "walked"
  /\ ~WalkFailed(walkErr)
  /\ calls' = Append(calls, Call("Build", Nm("", ""), NoFile))
  /\ handed' = BuildData(builder)
  /\ \E rendered \in BOOLEAN :
       IF rendered
       THEN pc' = "copy" /\ runErr' = runErr
       ELSE pc' = "done" /\ runErr' = "render"
  /\ UNCHANGED << prior, fs, cfg, g, builder, todo, walkErr, trace, output >>

\* run, io.Copy(output, doc)
RunCopy ==
  /\ pc = "copy"
  /\ output' = handed
  /\ pc' = "done"
  /\ UNCHANGED << prior, fs, cfg, g, builder, todo, walkErr, runErr, trace, handed, calls >>

Next == RunSetup \/ WalkEntry \/ RunWalkFailed \/ RunBuild \/ RunCopy

Spec == Init /\ [][Next]_vars

\* =================================================================== claims
\* The files delivered to the builder through AddFile, by their paths.
Delivered == { builder.files[i].Path : i \in 1..Len(builder.files) }

\* Walk has returned.
WalkOver == pc \in { "walked", "copy", "done" }

\* No system call of the scan fails.
NoFaults == fs.unreadable = {} /\ fs.noInfo = {} /\ fs.badDirs = {}

\* The scan of the end-to-end example: the root holds exactly a.go (10 bytes),
\* b.png, .gitignore with the one pattern secret.txt, and secret.txt (20 bytes);
\* no -ignore patterns, no ceilings; every file can be read and there is no
\* rules file above the root.
E2EScan ==
  /\ fs.dirs = { <<>> }
  /\ fs.files = { <<NGitignore>>, <<NA>>, <<NB>>, <<NSecret>> }
  /\ fs.rules[<<>>] = Rules(<< Pat(NSecret, FALSE) >>)
  /\ fs.size[<<NA>>] = 10
  /\ fs.size[<<NSecret>>] = 20
  /\ fs.outside = NoRules
  /\ NoFaults
  /\ cfg.IgnoreCli = << >>
  /\ cfg.MaxSizeKB = 0
  /\ cfg.MaxTotalSizeMB = 0

\* C1 as stated: in the end-to-end example the set of files delivered to the
\* builder is exactly {a.go}.
C1_DeliversOnlyAGo ==
  (E2EScan /\ WalkOver) => Delivered = { <<NA>> }

\* C1 amended: in the end-to-end example the files delivered are exactly
\* .gitignore and a.go: the rules file is itself a file of the root that no
\* rule excludes; b.png and secret.txt are not delivered.
C1_DeliversGitignoreAndAGo ==
  (E2EScan /\ WalkOver) => Delivered = { <<NGitignore>>, <<NA>> }

\* C1 witness: the walk over the end-to-end example has returned with a.go
\* delivered.
C1_Witness ==
  E2EScan /\ WalkOver /\ walkErr = "none" /\ <<NA>> \in Delivered

\* ---------------------------------------------------------------------- C2
\* The entry reached the cumulative ceiling: no rule excluded it, it is not a
\* binary, its size could be read and it is not above the per-file ceiling.
ReachedBudgetGate(t) == t.out \in { "budget", "unreadable", "added" }

\* C2: with a cumulative ceiling B > 0, the walk fails at the first file
\* reaching the ceiling check whose size added to the running total exceeds B,
\* and only there; a file that brings the total to exactly B is admitted; the
\* failing call is the last call of the walk, and the builder holds exactly the
\* files delivered before it, then and for the rest of the run.
C2_CumulativeCeiling ==
  /\ \A i \in 1..Len(trace) :
       LET t == trace[i]
           B == g.totalSizeLimit
       IN  /\ ReachedBudgetGate(t) =>
                ((t.out = "budget") <=> (B > 0 /\ t.before + t.size > B))
           /\ (ReachedBudgetGate(t) /\ B > 0 /\ t.before + t.size = B) =>
                t.out # "budget"
           /\ t.out = "budget" =>
                /\ i = Len(trace)
                /\ todo = << >>
                /\ walkErr = "budget"
                /\ WalkOver
                /\ t.after = t.before
  /\ walkErr = "budget" =>
       /\ trace # << >> /\ trace[Len(trace)].out = "budget"
       /\ Delivered = { trace[j].tp : j \in { k \in 1..Len(trace) : trace[k].out = "added" } }
       /\ Len(builder.files) = Cardinality({ k \in 1..Len(trace) : trace[k].out = "added" })

\* C2 witness: a file brought the running total to exactly B and was added, a
\* later file exceeded B, and run has ended with the files still in the builder.
C2_Witness ==
  /\ pc = "done"
  /\ walkErr = "budget"
  /\ g.totalSizeLimit > 0
  /\ \E i \in 1..Len(trace) :
       /\ trace[i].out = "added"
       /\ trace[i].after = g.totalSizeLimit
       /\ trace[i].size > 0
  /\ Len(builder.files) >= 2

\* ---------------------------------------------------------------------- C3
\* The entry reached the per-file ceiling.
ReachedSizeGate(t) == t.out \in { "toolarge", "budget", "unreadable", "added" }

\* The entry WalkDir visits after the file tp when that file is skipped: its
\* next sibling in listing order, if it has one.
LaterSiblings(tp) ==
  LET parent == SubSeq(tp, 1, Len(tp) - 1)
      sibs == Children(parent)
  IN  { k \in 1..Len(sibs) : \E j \in 1..Len(sibs) : sibs[j].tp = tp /\ k > j }

NextSibling(tp) ==
  LET parent == SubSeq(tp, 1, Len(tp) - 1)
      sibs == Children(parent)
      k == CHOOSE m \in LaterSiblings(tp) : \A n \in LaterSiblings(tp) : m <= n
  IN  sibs[k].tp

\* C3: with a per-file ceiling c > 0 a file of more than c bytes (c+1) is
\* skipped and a file of exactly c bytes is not; skipping does not fail the
\* walk, which goes on with the next entry; with c = 0 no file is skipped for
\* its size.
C3_PerFileCeiling ==
  \A i \in 1..Len(trace) :
    LET t == trace[i]
        c == g.maxSizeBytes
    IN  /\ ReachedSizeGate(t) => ((t.out = "toolarge") <=> (c > 0 /\ t.size > c))
        /\ (ReachedSizeGate(t) /\ c > 0 /\ t.size = c) => t.out # "toolarge"
        /\ (ReachedSizeGate(t) /\ c > 0 /\ t.size = c + 1) => t.out = "toolarge"
        /\ (ReachedSizeGate(t) /\ c = 0) => t.out # "toolarge"
        /\ t.out = "toolarge" =>
             /\ t.after = t.before
             /\ i = Len(trace) => walkErr = "none"
             /\ LaterSiblings(t.tp) # {} =>
                  /\ i = Len(trace) => pc = "walk"
                  /\ i < Len(trace) => trace[i + 1].tp = NextSibling(t.tp)

\* C3 witness: under a ceiling c > 0 a file of c bytes was added, a file of
\* c+1 bytes was skipped, and an entry after the skipped one was processed.
C3_Witness ==
  /\ g.maxSizeBytes > 0
  /\ \E i, j \in 1..Len(trace) :
       /\ trace[i].size = g.maxSizeBytes /\ trace[i].out = "added"
       /\ trace[j].size = g.maxSizeBytes + 1 /\ trace[j].out = "toolarge"
       /\ j < Len(trace)

\* ---------------------------------------------------------------------- C4
\* No rule of any source and no ceiling applies, and nothing fails.
NoRulesNoLimits ==
  /\ cfg.IgnoreCli = << >>
  /\ \A d \in fs.dirs : fs.rules[d] = NoRules
  /\ fs.outside = NoRules
  /\ cfg.MaxSizeKB = 0
  /\ cfg.MaxTotalSizeMB = 0
  /\ NoFaults

\* The file lies in a directory named .git.
InsideGit(tp) == \E k \in 1..(Len(tp) - 1) : tp[k] = NGit

\* C4: without rules, ceilings and failures the files delivered by one Walk
\* are exactly the files of the tree that are not inside a .git directory and
\* have no binary/archive extension.
C4_AcceptedSet ==
  (NoRulesNoLimits /\ WalkOver) =>
     /\ walkErr = "none"
     /\ Delivered = { f \in fs.files : ~InsideGit(f) /\ f[Len(f)].x \notin binaryExts }

\* C4 witness: such a walk has returned over a tree that has a .git directory,
\* a binary file and files in nested directories.
C4_Witness ==
  /\ NoRulesNoLimits /\ WalkOver
  /\ <<NGit, NHead>> \in fs.files /\ <<NB>> \in fs.files
  /\ <<ND1, NE, NX>> \in Delivered

\* ---------------------------------------------------------------------- C5
\* The call went through the test on the two matchers.
ReachedRules(t) == t.out \notin { "walkerr", "gitdir" }

GitMatches(t) == ~t.m.nil /\ MatchesPath(t.m, t.path)

CliMatches(t) == ~g.cliIgnoreMatcher.nil /\ MatchesPath(g.cliIgnoreMatcher, t.path)

\* C5: an entry is excluded by the rules exactly when the rule set resolved
\* for its parent directory matches its path or the -ignore rule set matches
\* its path; the rule set is the one resolved for filepath.Dir of the path; a
\* source that is nil excludes nothing.
C5_RulesComposeAsOr ==
  \A i \in 1..Len(trace) :
    LET t == trace[i]
    IN  ReachedRules(t) =>
          /\ t.dir = Dir(t.path)
          /\ t.m = g.matcherCache[t.dir]
          /\ (t.out = "ignored") <=> (GitMatches(t) \/ CliMatches(t))
          /\ (t.m.nil /\ g.cliIgnoreMatcher.nil) => t.out # "ignored"
          /\ t.out = "ignored" => t.after = t.before /\ t.tp \notin Delivered

\* C5 witness: one entry was excluded by its directory's rules alone and one
\* by the -ignore patterns alone.
C5_Witness ==
  \E i, j \in 1..Len(trace) :
    /\ trace[i].out = "ignored" /\ GitMatches(trace[i]) /\ ~CliMatches(trace[i])
    /\ trace[j].out = "ignored" /\ CliMatches(trace[j]) /\ ~GitMatches(trace[j])

\* ---------------------------------------------------------------------- C6
ParentOf(tp) == SubSeq(tp, 1, Len(tp) - 1)

\* Directory D holds a rules file whose pattern is *.log.
HoldsStarLog(D) == fs.rules[D] = Rules(<< StarLog >>)

\* File f lies in D or in a descendant of D, with no rules file in any
\* directory between D and the file.
GovernedBy(f, D) ==
  /\ IsPrefix(D, ParentOf(f))
  /\ \A k \in (Len(D) + 1)..(Len(f) - 1) : ~fs.rules[SubSeq(f, 1, k)].present

\* D2 is a sibling of D without a rules file.
PlainSibling(D, D2) ==
  /\ D # << >> /\ D2 # << >> /\ D2 # D
  /\ ParentOf(D2) = ParentOf(D)
  /\ ~fs.rules[D2].present

\* C6: when directory D holds a rules file with the pattern *.log, no file
\* named *.log in D, or below D with no rules file in between, is delivered,
\* and each such file the walk visits is excluded by the rules; the entries of
\* a sibling directory D2 without a rules file are never tested against D's
\* rule set, and an entry of D2 that no other rule matches is not excluded.
C6_RulesFileScope ==
  \A D \in fs.dirs : HoldsStarLog(D) =>
    /\ \A f \in fs.files : (f[Len(f)].x = ".log" /\ GovernedBy(f, D)) =>
         /\ f \notin Delivered
         /\ \A i \in 1..Len(trace) : trace[i].tp = f => trace[i].out = "ignored"
    /\ \A D2 \in fs.dirs : PlainSibling(D, D2) =>
         \A i \in 1..Len(trace) :
           (ReachedRules(trace[i]) /\ ParentOf(trace[i].tp) = D2) =>
              /\ trace[i].m.src # Clean(GoPath(g.srcDir, D))
              /\ (trace[i].m.nil /\ ~CliMatches(trace[i])) =>
                   trace[i].out # "ignored"

\* C6 witness: d1 holds *.log and d2 has no rules file; x.log in d1 and in
\* d1/e were excluded and x.log in d2 was delivered.
C6_Witness ==
  /\ <<ND1>> \in fs.dirs
  /\ HoldsStarLog(<<ND1>>)
  /\ PlainSibling(<<ND1>>, <<ND2>>)
  /\ ~fs.rules[<<ND1, NE>>].present
  /\ \E i, j \in 1..Len(trace) :
       /\ trace[i].tp = <<ND1, NE, NX>> /\ trace[i].out = "ignored"
       /\ trace[j].tp = <<ND1, NX>> /\ trace[j].out = "ignored"
  /\ <<ND2, NX>> \in Delivered

\* C6 witness of the other visiting order: d2 holds *.log, d1 (visited first)
\* has no rules file and its x.log was delivered.
C6_WitnessReverse ==
  /\ <<ND2>> \in fs.dirs
  /\ HoldsStarLog(<<ND2>>)
  /\ PlainSibling(<<ND2>>, <<ND1>>)
  /\ <<ND1, NX>> \in Delivered
  /\ \E i \in 1..Len(trace) : trace[i].tp = <<ND2, NX>> /\ trace[i].out = "ignored"

\* ---------------------------------------------------------------------- C7
BuildCalls == { i \in 1..Len(calls) : calls[i].op = "Build" }

AddFileCalls == { i \in 1..Len(calls) : calls[i].op = "AddFile" }

\* C7 as stated: when the format selector is none of review, llm and default,
\* run ends with an error, Build is never called and nothing is written.
C7_UnknownFormatIsError ==
  (pc = "done" /\ cfg.Format \notin { "review", "llm", "default" }) =>
     /\ runErr # "none"
     /\ BuildCalls = {}
     /\ output = NoDoc

\* ---------------------------------------------------------------------- C8
\* C8: Build is called at most once in a run, only after Walk has returned
\* without error, and it is the last call on the builder (no AddFile follows
\* it); when Walk returns an error Build is never called, run returns that
\* error and nothing is written to the output.
C8_BuildOnceAfterWalk ==
  /\ Cardinality(BuildCalls) <= 1
  /\ \A i \in BuildCalls :
       /\ i = Len(calls)
       /\ walkErr = "none"
       /\ todo = << >>
       /\ pc \in { "copy", "done" }
  /\ walkErr # "none" =>
       /\ BuildCalls = {}
       /\ output = NoDoc
       /\ handed = NoDoc
       /\ pc = "done" => runErr = walkErr
  /\ output # NoDoc => (BuildCalls # {} /\ output = handed)

\* C8 witness: Walk failed on the cumulative ceiling after files had been
\* added, and run has returned.
C8_Witness ==
  /\ pc = "done"
  /\ walkErr = "budget"
  /\ AddFileCalls # {}
  /\ BuildCalls = {}

\* --------------------------------------------------------------------- C10
IsProperPrefix(a, b) == Len(a) < Len(b) /\ SubSeq(b, 1, Len(a)) = a

\* The call pruned a directory.
Pruned(t) == t.isDir /\ t.out \in { "gitdir", "ignored" }

\* The name WalkDir reports for the entry.
EntryName(t) == IF t.tp = << >> THEN Base(g.srcDir) ELSE t.tp[Len(t.tp)]

\* C10: a directory named .git is always pruned, whatever the rule sets say,
\* and so is a directory that a rule set matches; pruning is no error; no
\* entry beneath a pruned directory is ever processed, so none is delivered
\* and none changes the running total; the walk goes on with the directory's
\* next sibling.
C10_Pruning ==
  \A i \in 1..Len(trace) :
    LET t == trace[i]
    IN  /\ (t.isDir /\ EntryName(t) = NGit /\ t.out # "walkerr") => t.out = "gitdir"
        /\ (t.isDir /\ ReachedRules(t) /\ (GitMatches(t) \/ CliMatches(t))) =>
              t.out = "ignored"
        /\ Pruned(t) =>
             /\ t.after = t.before
             /\ i = Len(trace) => walkErr = "none"
             /\ \A j \in 1..Len(trace) : ~IsProperPrefix(t.tp, trace[j].tp)
             /\ \A f \in Delivered : ~IsProperPrefix(t.tp, f)
             /\ (t.tp # << >> /\ LaterSiblings(t.tp) # {}) =>
                  /\ i = Len(trace) => pc = "walk"
                  /\ i < Len(trace) => trace[i + 1].tp = NextSibling(t.tp)
             /\ t.tp = << >> => (todo = << >> /\ pc # "walk")

\* C10 witness: .git was pruned under a rule set that negates .git, a
\* directory was pruned by a rule, and the walk went on after each.
C10_Witness ==
  /\ fs.rules[<< >>] = Rules(<< Star, Pat(NGit, TRUE) >>)
  /\ \E i, j \in 1..Len(trace) :
       /\ trace[i].out = "gitdir" /\ i < Len(trace)
       /\ ~MatchesPath(trace[j].m, trace[i].path)
       /\ trace[j].isDir /\ trace[j].out = "ignored" /\ j < Len(trace)
       /\ trace[j].tp # << >>

\* ---------------------------------------------------------------------- C9
\* The builder on its own: any sequence of at most MaxCalls calls of
\* SetProjectName, SetSummary, AddFile and Build on a builder of each kind.
BuilderKinds == { "default", "review", "llm" }

FileChoices ==
  { FileData(<<NA>>, << "p", "\n", "q" >>, "go"),
    FileData(<<ND1, NX>>, << "l" >>, ""),
    FileData(<<NSecret>>, << >>, "") }

InitBuilder ==
  /\ fs = MkFS(LayoutE2E, << >>, NoRules, << >>, {}, {}, {})
  /\ cfg = MkCfg(<<Dot>>, << >>, "default", 0, 0)
  /\ g = ZeroGenerator
  /\ builder \in { NewBuilder(k) : k \in BuilderKinds }
  /\ todo = << >>
  /\ pc = "builder"
  /\ walkErr = "none"
  /\ runErr = "none"
  /\ trace = << >>
  /\ handed = NoDoc
  /\ output = NoDoc
  /\ calls = << >>
  /\ prior = << >>

BuilderFrame == UNCHANGED << prior, fs, cfg, g, todo, pc, walkErr, runErr, trace, output >>

CallSetProjectName ==
  /\ pc = "builder" /\ Len(calls) < MaxCalls
  /\ \E n \in { NProj, Dot } :
       /\ builder' = SetProjectName(builder, n)
       /\ calls' = Append(calls, Call("SetProjectName", n, NoFile))
  /\ handed' = handed
  /\ BuilderFrame

CallSetSummary ==
  /\ pc = "builder" /\ Len(calls) < MaxCalls
  /\ LET f == FileData(<< >>, << "t" >>, "markdown")
     IN  /\ builder' = SetSummary(builder, f)
         /\ calls' = Append(calls, Call("SetSummary", Nm("", ""), f))
  /\ handed' = handed
  /\ BuilderFrame

CallAddFile ==
  /\ pc = "builder" /\ Len(calls) < MaxCalls
  /\ \E f \in FileChoices :
       /\ builder' = [builder EXCEPT !.files = AddFile(builder.files, f)]
       /\ calls' = Append(calls, Call("AddFile", Nm("", ""), f))
  /\ handed' = handed
  /\ BuilderFrame

CallBuild ==
  /\ pc = "builder" /\ Len(calls) < MaxCalls
  /\ handed' = BuildData(builder)
  /\ calls' = Append(calls, Call("Build", Nm("", ""), NoFile))
  /\ builder' = builder
  /\ BuilderFrame

NextBuilder == CallSetProjectName \/ CallSetSummary \/ CallAddFile \/ CallBuild

SpecBuilder == InitBuilder /\ [][NextBuilder]_vars

\* The arguments of the AddFile calls so far, in call order.
AddedFiles ==
  LET cs == SelectSeq(calls, LAMBDA c : c.op = "AddFile")
  IN  [i \in 1..Len(cs) |-> cs[i].file]

\* The file record of the data handed to the template and the AddFile
\* argument it stands for: the same record, for the review builder the same
\* path and language with the content cut into its numbered lines.
SameFile(kind, h, f) ==
  IF kind = "review"
  THEN /\ h.Path = f.Path
       /\ h.Language = f.Language
       /\ Len(h.Lines) = Len(SplitLines(f.Content, 1, << >>))
       /\ h = ReviewFileData(f)
  ELSE h = f

\* C9: for each of the three builders and after any sequence of calls, the
\* builder holds the AddFile arguments in call order, duplicates included
\* (SetProjectName and SetSummary do not touch them), and the file sequence
\* Build hands to the template is that sequence, file by file.
C9_FilesInCallOrder ==
  /\ builder.files = AddedFiles
  /\ (calls # << >> /\ calls[Len(calls)].op = "Build") =>
       /\ Len(handed.files) = Len(AddedFiles)
       /\ \A i \in 1..Len(AddedFiles) :
            SameFile(builder.kind, handed.files[i], AddedFiles[i])

\* C9 witness: the same file was added twice with a SetSummary call in
\* between, and Build has handed both to the template.
C9_Witness ==
  /\ pc = "builder"
  /\ Len(calls) = 4
  /\ calls[1].op = "AddFile" /\ calls[2].op = "SetSummary"
  /\ calls[3].op = "AddFile" /\ calls[3].file = calls[1].file
  /\ calls[4].op = "Build"
  /\ Len(handed.files) = 2

\* --------------------------------------------------------------------- C11
\* The call skipped its entry for a condition of that entry alone.
Absorbed(t) == t.out \in { "ignored", "binary", "toolarge", "noinfo", "unreadable" }

\* The call returned an error.
Fatal(t) == t.out \in { "budget", "walkerr" }

Visited == { trace[i].tp : i \in 1..Len(trace) }

\* The entry lies beneath a directory the walk pruned.
UnderPruned(tp) ==
  \E i \in 1..Len(trace) : Pruned(trace[i]) /\ IsProperPrefix(trace[i].tp, tp)

\* C11: Walk returns an error exactly when a call of processPath met the
\* cumulative ceiling or was handed an error of the traversal, and that call
\* is the last one; an entry that is excluded, binary, above the per-file
\* ceiling, without file info or unreadable is skipped: nothing is delivered
\* for it, the running total is unchanged, no error results and the walk goes
\* on with the next entry; a walk that returns nil has visited every entry
\* that is not beneath a pruned directory.
C11_ErrorPropagation ==
  /\ WalkOver => ((walkErr # "none") <=> (\E i \in 1..Len(trace) : Fatal(trace[i])))
  /\ ~WalkOver => walkErr = "none"
  /\ \A i \in 1..Len(trace) :
       LET t == trace[i]
       IN  /\ Fatal(t) => (i = Len(trace) /\ WalkOver /\ walkErr = t.out)
           /\ Absorbed(t) =>
                /\ t.tp \notin Delivered
                /\ t.after = t.before
                /\ i = Len(trace) => walkErr = "none"
                /\ (~t.isDir /\ LaterSiblings(t.tp) # {}) =>
                     /\ i = Len(trace) => pc = "walk"
                     /\ i < Len(trace) => trace[i + 1].tp = NextSibling(t.tp)
  /\ (WalkOver /\ walkErr = "none") =>
       \A e \in fs.dirs \cup fs.files : e \in Visited \/ UnderPruned(e)

\* C11 witness: one walk skipped a file above the per-file ceiling, a binary
\* file and a file that could not be read, added a file after them and
\* returned nil.
C11_Witness ==
  /\ WalkOver /\ walkErr = "none"
  /\ \E i, j, k, l \in 1..Len(trace) :
       /\ trace[i].out = "toolarge"
       /\ trace[j].out = "binary"
       /\ trace[k].out = "unreadable"
       /\ trace[l].out = "added" /\ l > i /\ l > j /\ l > k

\* --------------------------------------------------------------------- C12
\* run is called again over the same tree with the same Config: what the walk
\* delivered and returned is remembered, and run starts over; it builds its
\* own builder and Generator (RunSetup).
RunAgain ==
  /\ pc = "done"
  /\ Len(prior) < MaxRuns - 1
  /\ prior' = Append(prior, [files |-> builder.files, err |-> walkErr,
                              visited |-> [i \in 1..Len(trace) |-> trace[i].path]])
  /\ pc' = "start"
  /\ todo' = << >>
  /\ walkErr' = "none"
  /\ runErr' = "none"
  /\ trace' = << >>
  /\ handed' = NoDoc
  /\ output' = NoDoc
  /\ calls' = << >>
  /\ UNCHANGED << fs, cfg, g, builder >>

NextTwice == Next \/ RunAgain

SpecTwice == Init /\ [][NextTwice]_vars

\* C12: a walk with a fresh Generator and builder over the same tree with the
\* same Config delivers, record by record, what every earlier walk delivered
\* (while it runs, a prefix of it), visits the same entries in the same order
\* and returns the same error outcome.
C12_Determinism ==
  \A r \in 1..Len(prior) :
    LET p == prior[r]
    IN  /\ pc = "walk" =>
             /\ Len(builder.files) <= Len(p.files)
             /\ builder.files = SubSeq(p.files, 1, Len(builder.files))
             /\ Len(trace) <= Len(p.visited)
        /\ WalkOver =>
             /\ builder.files = p.files
             /\ walkErr = p.err
             /\ [i \in 1..Len(trace) |-> trace[i].path] = p.visited

\* C12 witness: the second walk over a tree has returned, like the first,
\* with the cumulative-ceiling error after delivering files.
C12_Witness ==
  /\ prior # << >>
  /\ WalkOver
  /\ walkErr = "budget"
  /\ Len(builder.files) >= 2
  /\ g.currentTotalSize > 0

\* --------------------------------------------------------------------- C13
\* The lines of a text: every piece that ends in a newline, and a last piece
\* without one if it is not empty.
LineCount(content) ==
  Cardinality({ i \in 1..Len(content) : content[i] = "\n" })
    + (IF content # << >> /\ content[Len(content)] # "\n" THEN 1 ELSE 0)

\* The entry starts with the number n right-aligned in NumWidth characters.
NumberedAs(entry, n) ==
  /\ Len(entry) >= NumWidth
  /\ SubSeq(entry, 1, NumWidth) = Pad(Len(Digits(n))) \o Digits(n)

\* C13 as stated: for every file held by a review builder, Build hands the
\* template exactly one entry per line of the file's content, the k-th entry
\* numbered k in a field of NumWidth characters, whatever the other files are.
C13_OneEntryPerLine ==
  (builder.kind = "review" /\ BuildCalls # {}) =>
     \A i \in 1..Len(builder.files) :
        /\ Len(handed.files[i].Lines) = LineCount(builder.files[i].Content)
        /\ \A k \in 1..Len(handed.files[i].Lines) :
             NumberedAs(handed.files[i].Lines[k], k)

\* --------------------------------------------------------------------- C14
\* The call was made for a file (not for a directory, not with an error).
FileCall(t) == ~t.isDir /\ t.out # "walkerr"

\* The file's size added to the running total would exceed the cumulative
\* ceiling.
WouldExceed(t) ==
  g.totalSizeLimit > 0 /\ t.before + t.size > g.totalSizeLimit

\* C14: for every file the checks apply in the order rules, binary
\* extension, per-file ceiling, cumulative ceiling: a file a rule set matches
\* is excluded; otherwise a file with a binary extension is skipped as
\* binary; otherwise a file whose size is known and above the per-file
\* ceiling is skipped as too large; in each of the three cases the running
\* total is unchanged, nothing is delivered and the walk does not fail, even
\* where the file's size would exceed the cumulative ceiling.
C14_CheckOrder ==
  \A i \in 1..Len(trace) :
    LET t == trace[i]
        matched == GitMatches(t) \/ CliMatches(t)
        binary == t.path[Len(t.path)].x \in binaryExts
        large == g.maxSizeBytes > 0 /\ t.size > g.maxSizeBytes
    IN  FileCall(t) =>
          /\ matched => t.out = "ignored"
          /\ (~matched /\ binary) => t.out = "binary"
          /\ (~matched /\ ~binary /\ t.tp \notin fs.noInfo /\ large) => t.out = "toolarge"
          /\ (matched \/ binary \/ (large /\ t.tp \notin fs.noInfo)) =>
               /\ t.out \in { "ignored", "binary", "toolarge" }
               /\ t.after = t.before
               /\ t.tp \notin Delivered
               /\ i = Len(trace) => (walkErr = "none" /\ g.currentTotalSize = t.before)
          /\ t.out = "budget" => (~matched /\ ~binary /\ ~large)

\* C14 witness: one walk skipped a binary file and a file above the per-file
\* ceiling, each of a size that would have exceeded the cumulative ceiling,
\* and returned nil.
C14_Witness ==
  /\ WalkOver /\ walkErr = "none"
  /\ \E i, j \in 1..Len(trace) :
       /\ trace[i].out = "binary" /\ WouldExceed(trace[i])
       /\ trace[j].out = "toolarge" /\ WouldExceed(trace[j])

\* C14 witness for the rules: a file a rules file excludes had a size that
\* would have exceeded the cumulative ceiling, and the walk returned nil.
C14_WitnessExcluded ==
  /\ WalkOver /\ walkErr = "none"
  /\ \E i \in 1..Len(trace) :
       /\ trace[i].out = "ignored" /\ ~trace[i].isDir /\ WouldExceed(trace[i])
       /\ trace[i].size > g.maxSizeBytes /\ g.maxSizeBytes > 0

\* --------------------------------------------------------------------- C15
\* The file passed the per-file and the cumulative ceiling.
PassedBothCeilings(t) == t.out \in { "unreadable", "added" }

\* The running total is handed from call to call and never decreases.
TotalChained ==
  /\ \A i \in 1..Len(trace) :
       /\ trace[i].after >= trace[i].before
       /\ i = 1 => trace[i].before = 0
       /\ i > 1 => trace[i].before = trace[i - 1].after
  /\ trace # << >> => g.currentTotalSize = trace[Len(trace)].after

\* C15 as stated: every file that passes both ceilings raises the running
\* total by its size, every other call leaves it unchanged, and the total
\* never decreases.
C15_AdmitAddsSize ==
  /\ TotalChained
  /\ \A i \in 1..Len(trace) :
       IF PassedBothCeilings(trace[i])
       THEN trace[i].after = trace[i].before + trace[i].size
       ELSE trace[i].after = trace[i].before

\* C15 amended: a file that passes both ceilings and is read successfully
\* raises the running total by exactly its size; a file that passes both
\* ceilings and cannot be read leaves it unchanged, as every other call
\* does; the total never decreases.
C15_ReadAddsSize ==
  /\ TotalChained
  /\ \A i \in 1..Len(trace) :
       LET t == trace[i]
       IN  /\ t.out = "added" => t.after = t.before + t.size
           /\ t.out # "added" => t.after = t.before
           /\ (PassedBothCeilings(t) /\ t.tp \in fs.unreadable) => t.out = "unreadable"
           /\ (PassedBothCeilings(t) /\ t.tp \notin fs.unreadable) => t.out = "added"

\* C15 witness: under both ceilings a file of positive size passed them and
\* could not be read, and a later file of positive size was added.
C15_Witness ==
  /\ g.maxSizeBytes > 0 /\ g.totalSizeLimit > 0
  /\ \E i, j \in 1..Len(trace) :
       /\ trace[i].out = "unreadable" /\ trace[i].size > 0
       /\ trace[j].out = "added" /\ trace[j].size > 0 /\ j > i
       /\ trace[j].after = trace[j].before + trace[j].size

\* --------------------------------------------------------------------- C16
\* The tree path of a directory of the scan, given the name the walk uses for
\* it; DirsNamed is empty for a directory outside the scan root.
DirsNamed(d) == { tp \in fs.dirs : Clean(GoPath(g.srcDir, tp)) = Clean(d) }

InsideRoot(d) == DirsNamed(d) # {}

\* The depth of a directory of the scan below the scan root, 0 for the root.
DepthBelowRoot(d) == Len(CHOOSE tp \in DirsNamed(d) : TRUE)

\* C16 as stated: for every entry the walk visits, the root entry included,
\* and every form of the root path, findMatcherForDir looks for a rules file
\* only in directories of the scan, never above the scan root, and makes at
\* most as many recursive calls as the directory lies below the scan root.
C16_ResolverInsideRoot ==
  \A i \in 1..Len(trace) :
    LET t == trace[i]
    IN  ReachedRules(t) =>
          /\ \A k \in 1..Len(t.probed) : InsideRoot(t.probed[k])
          /\ InsideRoot(t.dir)
          /\ t.steps <= DepthBelowRoot(t.dir)

\* --------------------------------------------------------------------- C17
\* The rule set of the nearest directory, from the directory tp up to the scan
\* root, that holds a rules file that can be read and compiled; Nil if there
\* is none.
RECURSIVE NearestRules(_)
NearestRules(tp) ==
  IF fs.rules[tp].present /\ fs.rules[tp].ok
  THEN Matcher(Clean(GoPath(g.srcDir, tp)), fs.rules[tp].pats)
  ELSE IF tp = << >> THEN Nil
  ELSE NearestRules(ParentOf(tp))

\* The tree path of a directory of the scan.
TreePath(d) == CHOOSE tp \in DirsNamed(d) : TRUE

\* C17 as stated: for every directory inside the scan root, whatever the
\* cache holds and in whatever order the walk asks, findMatcherForDir returns
\* the rule set of the nearest directory up to the scan root with a readable,
\* compilable rules file, and nil if there is none; a rules file that cannot
\* be read or compiled counts as absent and fails nothing; every cache entry
\* for a directory of the scan is that rule set.
C17_NearestRulesFile ==
  /\ \A i \in 1..Len(trace) :
       LET t == trace[i]
       IN  (ReachedRules(t) /\ InsideRoot(t.dir)) =>
              t.m = NearestRules(TreePath(t.dir))
  /\ \A d \in DOMAIN g.matcherCache :
       InsideRoot(d) => g.matcherCache[d] = NearestRules(TreePath(d))

\* --------------------------------------------------------------------- C18
\* The directories in which the calls so far looked for a rules file, one
\* element per lookup: the call and its position in the call's lookups.
Lookups ==
  UNION { { <<i, k>> : k \in 1..Len(trace[i].probed) } : i \in 1..Len(trace) }

\* C18: every call of findMatcherForDir leaves a cache entry for the
\* directory asked and for every directory it looked in; an entry once
\* written keeps its value for the rest of the scan; a directory that has an
\* entry is not looked up on disk again, so no directory is looked up twice
\* in one scan.
C18_CacheWrittenOnce ==
  /\ \A i \in 1..Len(trace) :
       LET t == trace[i]
       IN  /\ \A d \in DOMAIN t.cacheBefore :
                d \in DOMAIN t.cacheAfter /\ t.cacheAfter[d] = t.cacheBefore[d]
           /\ i = 1 => t.cacheBefore = << >>
           /\ i > 1 => t.cacheBefore = trace[i - 1].cacheAfter
           /\ i = Len(trace) => g.matcherCache = t.cacheAfter
           /\ ~ReachedRules(t) => t.cacheAfter = t.cacheBefore
           /\ ReachedRules(t) =>
                /\ t.dir \in DOMAIN t.cacheAfter
                /\ t.cacheAfter[t.dir] = t.m
                /\ \A k \in 1..Len(t.probed) :
                     /\ t.probed[k] \in DOMAIN t.cacheAfter
                     /\ t.probed[k] \notin DOMAIN t.cacheBefore
                /\ DOMAIN t.cacheAfter =
                     DOMAIN t.cacheBefore \cup { t.probed[k] : k \in 1..Len(t.probed) }
  /\ \A a, b \in Lookups :
       trace[a[1]].probed[a[2]] = trace[b[1]].probed[b[2]] => a = b

\* C18 witness: a call looked in a directory, recursed to its parent and
\* cached the result, and a later call for the same directory was answered
\* from the cache without a lookup.
C18_Witness ==
  \E i, j \in 1..Len(trace) :
    /\ i < j
    /\ trace[i].steps >= 1 /\ trace[i].probed # << >>
    /\ ReachedRules(trace[j])
    /\ trace[j].dir = trace[i].dir
    /\ trace[j].probed = << >>
    /\ trace[j].cacheAfter = trace[j].cacheBefore

\* --------------------------------------------------------------------- C19
\* The sizes of the files the first n calls of processPath delivered.
RECURSIVE AddedSize(_)
AddedSize(n) ==
  IF n = 0 THEN 0
  ELSE AddedSize(n - 1) + (IF trace[n].out = "added" THEN trace[n].size ELSE 0)

\* The builder holds a summary read from README.md.
HasSummary == builder.projectSummary # NoFile

SummarySize == IF HasSummary THEN fs.size[<<NReadme>>] ELSE 0

\* A rule set of the scan matches README.md of the root.
ReadmeExcluded ==
  LET path == Join(g.srcDir, NReadme)
      own == fs.rules[<< >>]
  IN  \/ (~g.cliIgnoreMatcher.nil /\ MatchesPath(g.cliIgnoreMatcher, path))
      \/ (own.present /\ own.ok /\ MatchesPath(Matcher(<< >>, own.pats), path))

\* C19 as stated: when Build is called under a cumulative ceiling B > 0, the
\* content the builder holds, the summary from README.md and the files added
\* by the walk, is at most B bytes in total, and the summary, like every
\* file, has passed the exclusion rules and the per-file ceiling.
C19_CeilingBoundsContent ==
  BuildCalls # {} =>
     /\ g.totalSizeLimit > 0 =>
          SummarySize + AddedSize(Len(trace)) <= g.totalSizeLimit
     /\ HasSummary =>
          /\ ~ReadmeExcluded
          /\ ~TooLarge(g.maxSizeBytes, fs.size[<<NReadme>>])

\* --------------------------------------------------------------------- C20
\* The calls of processPath that delivered a file, in order.
AddedCalls == SelectSeq(trace, LAMBDA t : t.out = "added")

\* C20: in every state of a walk on a fresh Generator the running total is
\* the sum of the sizes of the files delivered so far, the builder holds
\* exactly those files in the order of their delivery, and under a cumulative
\* ceiling B > 0 the running total is at most B.
C20_BudgetInvariant ==
  /\ g.currentTotalSize = AddedSize(Len(trace))
  /\ Len(builder.files) = Len(AddedCalls)
  /\ \A k \in 1..Len(AddedCalls) :
       builder.files[k] = NewFileData(g.srcDir, AddedCalls[k].path, AddedCalls[k].tp)
  /\ g.totalSizeLimit > 0 => g.currentTotalSize <= g.totalSizeLimit
  /\ g.currentTotalSize >= 0

\* C20 witness: in the middle of a walk under a cumulative ceiling the files
\* delivered have brought the running total to exactly the ceiling, and a
\* file that could not be read was passed over.
C20_Witness ==
  /\ pc = "walk"
  /\ g.totalSizeLimit > 0
  /\ g.currentTotalSize = g.totalSizeLimit
  /\ Len(builder.files) >= 2
  /\ \E i \in 1..Len(trace) : trace[i].out = "unreadable" /\ trace[i].size > 0

\* --------------------------------------------------------------------- C21
\* The scans of the specification with fairness: every form of the root, with
\* and without a rules file above the root, in the root and in d1 (one that
\* compiles, one that does not); a walk that meets the cumulative ceiling; a
\* directory that cannot be listed.
LiveScans ==
  { [fs |-> MkFS(LayoutMain, (<<>> :> r0) @@ (<<ND1>> :> r1), out, << >>, {}, {}, {}),
     cfg |-> MkCfg(src, << >>, "default", 0, 0)] :
      r0 \in { NoRules, Rules(<<Pat(ND1, FALSE)>>) },
      r1 \in { NoRules, Rules(<<StarLog>>), BadRules },
      out \in { NoRules, Rules(<<StarLog>>) },
      src \in SrcDirs }
  \cup
  { [fs |-> MkFS(LayoutMain, << >>, NoRules, (<<NA>> :> sa), unreadable, {}, badDirs),
     cfg |-> MkCfg(<<NProj>>, << >>, "default", 0, mb)] :
      sa \in { 10 } \cup { m * BytesPerMB : m \in 1..MaxMB },
      unreadable \in { {}, { <<ND1, NX>> } },
      badDirs \in { {}, { <<ND1>> } },
      mb \in 0..MaxMB }

InitLive ==
  /\ \E sc \in LiveScans : fs = sc.fs /\ cfg = sc.cfg
  /\ g = ZeroGenerator
  /\ builder = NewBuilder("none")
  /\ todo = << >>
  /\ pc = "start"
  /\ walkErr = "none"
  /\ runErr = "none"
  /\ trace = << >>
  /\ handed = NoDoc
  /\ output = NoDoc
  /\ calls = << >>
  /\ prior = << >>

\* run is one sequential program: whenever it has a step to take, it takes one.
SpecLive == InitLive /\ [][Next]_vars /\ WF_vars(Next)

\* How far a directory name is from "." or "/", where filepath.Dir stays.
Height(d) == IF d \in { <<Dot>>, <<Slash>> } THEN 0 ELSE Len(d)

\* The call of findMatcherForDir made for t went from each directory it
\* looked in to the strict parent of that directory, recursed only from a
\* directory that is neither the scan root nor "." nor "/", and ended at a
\* cached directory, at a directory with a rules file that compiles, at the
\* scan root, at "." or at "/".
Descends(t) ==
  LET n == Len(t.probed)
  IN  /\ \A k \in 1..(n - 1) :
           /\ t.probed[k + 1] = Dir(t.probed[k])
           /\ Height(t.probed[k + 1]) < Height(t.probed[k])
      /\ n > 0 => t.probed[1] = t.dir
      /\ n = 0 => (t.steps = 0 /\ t.dir \in DOMAIN t.cacheBefore)
      /\ n > 0 =>
           /\ t.steps \in { n - 1, n }
           /\ \A k \in 1..t.steps :
                /\ t.probed[k] \notin { g.srcDir, <<Dot>>, <<Slash>> }
                /\ ~(RulesAt(g.srcDir, t.probed[k]).present
                        /\ RulesAt(g.srcDir, t.probed[k]).ok)
           /\ t.steps = n =>
                /\ Dir(t.probed[n]) \in DOMAIN t.cacheBefore
                /\ Height(Dir(t.probed[n])) < Height(t.probed[n])
           /\ t.steps = n - 1 =>
                \/ RulesAt(g.srcDir, t.probed[n]).present /\ RulesAt(g.srcDir, t.probed[n]).ok
                \/ t.probed[n] \in { g.srcDir, <<Dot>>, <<Slash>> }
      /\ t.steps <= Height(t.dir)

ResolverDescends ==
  \A i \in 1..Len(trace) : ReachedRules(trace[i]) => Descends(trace[i])

\* C21: over every tree of the model Walk eventually returns, and every call
\* of findMatcherForDir it makes is a finite descent: each recursive call is
\* made on the strict parent of its argument, and the recursion ends at a
\* cached directory, at a rules file that compiles, at the scan root, at "."
\* or at "/".
C21_Termination == []ResolverDescends /\ <>WalkOver

\* C21 witness: Walk has returned after visiting a nested directory, and one
\* of its calls of findMatcherForDir recursed to the parent directory.
C21_Witness ==
  /\ WalkOver
  /\ \E i, j \in 1..Len(trace) :
       /\ trace[i].steps >= 1
       /\ Len(trace[j].tp) = 3

====
